---- MODULE Spec2Model ----
(***************************************************************************)
(* The LSP server of src/lsp/server_impl.go as a state machine.            *)
(*                                                                         *)
(* Threads of control: the demultiplexing loop (handleConn), one event     *)
(* loop per connection (handleEvents), the epoch ticker, the network peer, *)
(* and the application's callers of Read, Write, CloseConn and Close.      *)
(* Each blocking channel operation or lock acquisition of the source is a  *)
(* position (pc) of its thread; an action is the code between two of them. *)
(*                                                                         *)
(* The client type and its methods (processPendingSendMessages,            *)
(* processAckMessage, processReceivedMessage, processPendingReSendMessages,*)
(* resendAckMessages, checkCloseComplete, isConnClosed) are defined in     *)
(* another file of package lsp; here they follow the design document       *)
(* (spec.md, section 4.1), and each such definition says so.               *)
(***************************************************************************)
EXTENDS Integers, Sequences, FiniteSets, TLC

\* ------------------------------------------------------------------ bounds
\* params.WindowSize and params.EpochLimit: configuration given to NewServer.
WindowSize == 2
EpochLimit == 1
\* The receive path: connections the peers open, the highest sequence number
\* of their Data datagrams, and the Data datagrams delivered in a behaviour.
MaxClients == 2
RecvSeq == 2
RecvDatagrams == 3
\* The send path: connections, the writes on each (and the highest sequence
\* number an Ack may carry), and the Ack datagrams delivered in a behaviour.
SendClients == 1
MaxSeq == 3
MaxDatagrams == 4
\* The epochs: connections, Data and Ack datagrams, writes per connection.
EpochClients == 2
EpochDatagrams == 1
EpochWrites == 1
\* Shutdown: the same.
ShutdownClients == 1
ShutdownDatagrams == 1
ShutdownWrites == 1
\* Demultiplexing: connections, the highest sequence number of the Data and
\* Ack datagrams, and the Data and Ack datagrams delivered in a behaviour.
DemuxClients == 2
DemuxSeq == 1
DemuxDatagrams == 3
\* Concurrent writers: application threads that may be inside Write at the
\* same time, the connections they write to, and the writes on each.
MaxWriters == 2
WriterClients == 2
WriterWrites == 2

\* ------------------------------------------------------- program constants
\* readChan: make(chan *Message, 10); writeChan: make(chan *Message, 10)
ReadChanCap == 10
WriteChanCap == 10

ClientIDs == 0 .. (MaxClients - 1)
Writers == 1 .. MaxWriters
SeqNums == 1 .. MaxSeq
NoMsg == [type |-> "None", conn |-> 0, seq |-> 0]

Min(a, b) == IF a < b THEN a ELSE b

\* NewData / NewAck / Connect messages (payloads are identified with their
\* sequence number: the payload of Data(c, n) is "the n-th payload of c").
NewData(c, n) == [type |-> "Data", conn |-> c, seq |-> n]
NewAck(c, n) == [type |-> "Ack", conn |-> c, seq |-> n]
NewConnect == [type |-> "Connect", conn |-> 0, seq |-> 0]

\* The client struct literal of handleConn's MsgConnect case, plus what the
\* connection has put on the wire (sentData, sentAcks, resent: the datagrams
\* handed to sendMessageToClient, kept as sets).
NewClient(c) ==
  [ connID |-> c,
    isClosed |-> 0,
    isLost |-> 0,
    writeChan |-> << >>,
    seqNum |-> 0,
    pendingReceivedMessages |-> {},
    pendingSendMessages |-> << >>,
    pendingReceivedMessageQueue |-> << >>,
    receivedMessageSeqNum |-> 0,
    pendingReSendMessages |-> {},
    lastProcessedMessageSeqNum |-> 1,
    slideWindow |-> << >>,
    unAckedMessages |-> {},
    epochFiredCount |-> 0,
    sentData |-> {},
    sentAcks |-> {},
    resent |-> {} ]

\* ---------------------------- client methods (from the design document)
\* c.isConnClosed(): the connection is closing or lost (spec 4.1, 4.3).
clientIsConnClosed(r) == r.isClosed # 0 \/ r.isLost # 0

\* sendMessageToClient(c, m): one datagram written to the socket.
sendMessageToClient(r, m) ==
  IF m.type = "Data"
    THEN [r EXCEPT !.sentData = @ \cup {m.seq}]
    ELSE [r EXCEPT !.sentAcks = @ \cup {m.seq}]

\* slideWindowAdvance (spec 4.1): while the window has room and the pending
\* queue is non-empty, admit the front of the queue and transmit it.
RECURSIVE processPendingSendMessages(_)
processPendingSendMessages(r) ==
  IF Len(r.slideWindow) < WindowSize /\ r.pendingSendMessages # << >>
    THEN LET n == Head(r.pendingSendMessages)
             r1 == [r EXCEPT !.pendingSendMessages = Tail(@),
                             !.slideWindow = Append(@, n),
                             !.unAckedMessages = @ \cup {n},
                             !.pendingReSendMessages = @ \cup {n}]
         IN processPendingSendMessages(sendMessageToClient(r1, NewData(r.connID, n)))
    ELSE r

\* The window front moved past every leading entry that is acknowledged.
RECURSIVE DropAckedFront(_, _)
DropAckedFront(w, unacked) ==
  IF w # << >> /\ Head(w) \notin unacked
    THEN DropAckedFront(Tail(w), unacked)
    ELSE w

\* onAck (spec 4.1): remove n from unAcked and pendingResend; if n was the
\* front of the window, advance the front and admit more.
processAckMessage(r, n) ==
  LET wasFront == r.slideWindow # << >> /\ Head(r.slideWindow) = n
      r1 == [r EXCEPT !.unAckedMessages = @ \ {n},
                      !.pendingReSendMessages = @ \ {n}]
  IN IF wasFront
       THEN processPendingSendMessages(
              [r1 EXCEPT !.slideWindow = DropAckedFront(@, r1.unAckedMessages)])
       ELSE r1

\* The contiguous prefix of pendingReceived moved to the ready queue.
RECURSIVE MoveContiguous(_)
MoveContiguous(r) ==
  IF r.lastProcessedMessageSeqNum \in r.pendingReceivedMessages
    THEN MoveContiguous(
           [r EXCEPT !.pendingReceivedMessages = @ \ {r.lastProcessedMessageSeqNum},
                     !.pendingReceivedMessageQueue =
                        Append(@, r.lastProcessedMessageSeqNum),
                     !.lastProcessedMessageSeqNum = @ + 1])
    ELSE r

\* onDataReceived (spec 4.1): a duplicate (at or below the last delivered
\* number, which is lastProcessedMessageSeqNum - 1) is not re-queued;
\* anything else is stored, then the contiguous run is made ready.
processReceivedMessage(r, n) ==
  IF n < r.lastProcessedMessageSeqNum
    THEN r
    ELSE MoveContiguous([r EXCEPT !.pendingReceivedMessages = @ \cup {n}])

\* onEpochTick, second half (spec 4.1): every entry of pendingResend is
\* transmitted again.
processPendingReSendMessages(r) ==
  [r EXCEPT !.resent = @ \cup r.pendingReSendMessages]

\* onEpochTick, last step (spec 4.1): the most recent acknowledgment owed to
\* the peer (that of the last in-order message, 0 after the handshake) is
\* sent again.
resendAckMessages(r) ==
  sendMessageToClient(r, NewAck(r.connID, r.lastProcessedMessageSeqNum - 1))

\* Closing has drained: nothing is unacknowledged or waiting to be sent.
checkCloseComplete(r) ==
  /\ r.isClosed # 0
  /\ r.unAckedMessages = {}
  /\ r.pendingSendMessages = << >>

\* ------------------------------------------------------------------- state
VARIABLES
  clients,        \* s.clients: the IDs in the connection table
  nextClientID,   \* s.nextClientID
  sIsClosed,      \* s.isClosed
  mutex,          \* s.mutex: "free", or the thread that holds it
  readChan,       \* s.readChan: buffered, <<connID, seqNum>> entries
  client,         \* the client structs, by connection ID
  evPc,           \* position of each connection's handleEvents goroutine
  hcPc,           \* position of the handleConn goroutine
  hcMsg,          \* the datagram handleConn is dispatching
  tickChan,       \* s.epochTimer.C: 1 when a tick is waiting in it
  tickerStopped,  \* s.epochTimer.Stop() has been called
  dgrams,         \* Data and Ack datagrams received so far
  rdPc,           \* the application thread calling Read
  wrPc, wrConn,   \* each thread calling Write, and the connection it writes to
  ccPc, ccConn,   \* ... calling CloseConn
  clPc,           \* ... calling Close
  delivered,      \* per connection, the sequence numbers Read has returned
  silent          \* per connection, epochs elapsed since its peer's last datagram

vars == << clients, nextClientID, sIsClosed, mutex, readChan, client, evPc,
           hcPc, hcMsg, tickChan, tickerStopped, dgrams, rdPc,
           wrPc, wrConn, ccPc, ccConn, clPc, delivered, silent >>

serverVars == << clients, nextClientID, sIsClosed, mutex >>
hcVars == << hcPc, hcMsg, dgrams >>
tickVars == << tickChan, tickerStopped >>
readVars == << rdPc >>
writeVars == << wrPc, wrConn >>
closeConnVars == << ccPc, ccConn >>

\* The datagrams the peers may send: any kind, any connection ID (known or
\* not), any sequence number, in any order and any number of times.
Datagrams ==
  {NewConnect} \cup {NewData(c, n) : c \in ClientIDs, n \in SeqNums}
               \cup {NewAck(c, n) : c \in ClientIDs, n \in SeqNums}

\* NewServer: the state when it returns.
Init ==
  /\ clients = {}
  /\ nextClientID = 0
  /\ sIsClosed = 0
  /\ mutex = "free"
  /\ readChan = << >>
  /\ client = [c \in ClientIDs |-> NewClient(c)]
  /\ evPc = [c \in ClientIDs |-> "none"]
  /\ hcPc = "select"
  /\ hcMsg = NoMsg
  /\ tickChan = 0
  /\ tickerStopped = FALSE
  /\ dgrams = 0
  /\ rdPc = "idle"
  /\ wrPc = [w \in Writers |-> "idle"]
  /\ wrConn = [w \in Writers |-> 0]
  /\ ccPc = "idle" /\ ccConn = 0
  /\ clPc = "idle"
  /\ delivered = [c \in ClientIDs |-> << >>]
  /\ silent = [c \in ClientIDs |-> 0]

\* --------------------------------------------------------------- the ticker
\* time.Ticker: puts a tick into its channel of capacity one. (A tick that
\* finds the channel full is dropped by the runtime and changes nothing.)
Tick(counted) ==
  /\ ~tickerStopped
  /\ tickChan = 0
  /\ tickChan' = 1
  /\ silent' = [c \in ClientIDs |->
                  IF counted /\ c \in clients
                    THEN Min(silent[c] + 1, EpochLimit + 1)
                    ELSE silent[c]]
  /\ UNCHANGED << serverVars, readChan, client, evPc, hcVars, tickerStopped,
                  readVars, writeVars, closeConnVars, clPc, delivered >>

\* --------------------------------------------------------------- handleConn
\* select, case <-s.closeChan: taken when Close is blocked sending on it.
HcRecvClose ==
  /\ hcPc = "select"
  /\ clPc = "sendCloseChan"
  /\ mutex = "free"
  /\ sIsClosed' = 1
  /\ clPc' = "waitComplete"
  /\ hcPc' = IF Cardinality(clients) = 0 THEN "sendComplete" ELSE "select"
  /\ UNCHANGED << clients, nextClientID, mutex, readChan, client, evPc, hcMsg,
                  dgrams, tickVars, readVars, writeVars, closeConnVars,
                  delivered, silent >>

\* s.completeCloseChan <- 1; return: received by Close.
HcComplete ==
  /\ hcPc = "sendComplete"
  /\ clPc = "waitComplete"
  /\ hcPc' = "exited"
  /\ clPc' = "done"
  /\ UNCHANGED << serverVars, readChan, client, evPc, hcMsg, dgrams, tickVars,
                  readVars, writeVars, closeConnVars, delivered, silent >>

\* select, default: no sender is ready on closeChan (and none ever is on
\* closeClientChan), so the loop enters the blocking conn.ReadFromUDP.
HcEnterRead ==
  /\ hcPc = "select"
  /\ clPc # "sendCloseChan"
  /\ hcPc' = "udp"
  /\ UNCHANGED << serverVars, readChan, client, evPc, hcMsg, dgrams, tickVars,
                  readVars, writeVars, closeConnVars, clPc, delivered, silent >>

\* conn.ReadFromUDP returns a datagram; UnMarshalMessage.
HcReadUDP(m, maxClients, maxDatagrams) ==
  /\ hcPc = "udp"
  /\ IF m.type = "Connect" THEN nextClientID < maxClients
                             ELSE dgrams < maxDatagrams
  /\ hcMsg' = m
  /\ dgrams' = IF m.type = "Connect" THEN dgrams ELSE dgrams + 1
  /\ hcPc' = "dispatch"
  /\ UNCHANGED << serverVars, readChan, client, evPc, tickVars, readVars,
                  writeVars, closeConnVars, clPc, delivered, silent >>

\* case MsgAck: look the connection up under the mutex; drop the datagram
\* if it is unknown, else go on to client.receivedMessageChan <- message.
HcDispatchAck ==
  /\ hcPc = "dispatch" /\ hcMsg.type = "Ack"
  /\ mutex = "free"
  /\ IF hcMsg.conn \in clients
       THEN /\ hcPc' = "sendRecv"
            /\ hcMsg' = hcMsg
            /\ silent' = [silent EXCEPT ![hcMsg.conn] = 0]
       ELSE /\ hcPc' = "select"
            /\ hcMsg' = NoMsg
            /\ silent' = silent
  /\ UNCHANGED << serverVars, readChan, client, evPc, dgrams, tickVars,
                  readVars, writeVars, closeConnVars, clPc, delivered >>

\* case MsgData without the "if !ok { continue }" of lines 106-108: the
\* datagram is counted and acknowledged whatever its connection ID.
HcDispatchDataUnchecked ==
  /\ hcPc = "dispatch" /\ hcMsg.type = "Data"
  /\ mutex = "free"
  /\ client' = [client EXCEPT
         ![hcMsg.conn].receivedMessageSeqNum = @ + 1,
         ![hcMsg.conn].epochFiredCount = 0]
  /\ hcPc' = "sendAck"
  /\ hcMsg' = hcMsg
  /\ silent' = [silent EXCEPT ![hcMsg.conn] = 0]
  /\ UNCHANGED << serverVars, readChan, evPc, dgrams, tickVars, readVars,
                  writeVars, closeConnVars, clPc, delivered >>

\* case MsgData: look up; count the datagram and reset epochFiredCount; go
\* on to client.writeChan <- NewAck(...).
HcDispatchData ==
  /\ hcPc = "dispatch" /\ hcMsg.type = "Data"
  /\ mutex = "free"
  /\ IF hcMsg.conn \in clients
       THEN /\ client' = [client EXCEPT
                 ![hcMsg.conn].receivedMessageSeqNum = @ + 1,
                 ![hcMsg.conn].epochFiredCount = 0]
            /\ hcPc' = "sendAck"
            /\ hcMsg' = hcMsg
            /\ silent' = [silent EXCEPT ![hcMsg.conn] = 0]
       ELSE /\ hcPc' = "select"
            /\ hcMsg' = NoMsg
            /\ UNCHANGED << client, silent >>
  /\ UNCHANGED << serverVars, readChan, evPc, dgrams, tickVars, readVars,
                  writeVars, closeConnVars, clPc, delivered >>

\* client.writeChan <- NewAck(message.ConnID, message.SeqNum): blocks while
\* the buffer is full.
HcSendAck ==
  /\ hcPc = "sendAck"
  /\ Len(client[hcMsg.conn].writeChan) < WriteChanCap
  /\ client' = [client EXCEPT ![hcMsg.conn].writeChan =
                   Append(@, NewAck(hcMsg.conn, hcMsg.seq))]
  /\ hcPc' = "sendRecv"
  /\ UNCHANGED << serverVars, readChan, evPc, hcMsg, dgrams, tickVars,
                  readVars, writeVars, closeConnVars, clPc, delivered, silent >>

\* case MsgConnect: nothing if the server is closing; else build the client,
\* insert it under the mutex, queue the Ack of the handshake, start its loop.
HcDispatchConnect ==
  /\ hcPc = "dispatch" /\ hcMsg.type = "Connect"
  /\ IF sIsClosed # 0
       THEN UNCHANGED << clients, nextClientID, client, evPc, silent >>
       ELSE /\ mutex = "free"
            /\ clients' = clients \cup {nextClientID}
            /\ client' = [client EXCEPT ![nextClientID] =
                 [NewClient(nextClientID) EXCEPT
                    !.writeChan = << NewAck(nextClientID, 0) >>]]
            /\ nextClientID' = nextClientID + 1
            /\ evPc' = [evPc EXCEPT ![nextClientID] = "select"]
            /\ silent' = [silent EXCEPT ![nextClientID] = 0]
  /\ hcPc' = "select"
  /\ hcMsg' = NoMsg
  /\ UNCHANGED << sIsClosed, mutex, readChan, dgrams, tickVars, readVars,
                  writeVars, closeConnVars, clPc, delivered >>

\* case MsgConnect in two steps, for the threads that look at the table
\* while it is being changed. First: the isConnClosed test, the client
\* literal and s.mutex.Lock().
HcConnectLock ==
  /\ hcPc = "dispatch" /\ hcMsg.type = "Connect"
  /\ IF sIsClosed # 0
       THEN hcPc' = "select" /\ hcMsg' = NoMsg /\ mutex' = mutex
       ELSE /\ mutex = "free"
            /\ mutex' = "handleConn"
            /\ hcPc' = "insert"
            /\ hcMsg' = hcMsg
  /\ UNCHANGED << clients, nextClientID, sIsClosed, readChan, client, evPc,
                  dgrams, tickVars, readVars, writeVars, closeConnVars, clPc,
                  delivered, silent >>

\* Second: s.clients[s.nextClientID] = client, s.mutex.Unlock(), the Ack of
\* the handshake queued, s.nextClientID++, go s.handleEvents(client).
HcConnectInsert ==
  /\ hcPc = "insert"
  /\ clients' = clients \cup {nextClientID}
  /\ mutex' = "free"
  /\ client' = [client EXCEPT ![nextClientID] =
       [NewClient(nextClientID) EXCEPT
          !.writeChan = << NewAck(nextClientID, 0) >>]]
  /\ nextClientID' = nextClientID + 1
  /\ evPc' = [evPc EXCEPT ![nextClientID] = "select"]
  /\ silent' = [silent EXCEPT ![nextClientID] = 0]
  /\ hcPc' = "select"
  /\ hcMsg' = NoMsg
  /\ UNCHANGED << sIsClosed, readChan, dgrams, tickVars, readVars, writeVars,
                  closeConnVars, clPc, delivered >>

\* ------------------------------------------------------------- handleEvents
\* Where the loop goes after a step: into prepareReadMessage while the ready
\* queue is non-empty, to the send on c.closeChan if the connection is lost,
\* else back to the select.
EvNextPc(r) ==
  IF r.pendingReceivedMessageQueue # << >> THEN "prepRead"
  ELSE IF r.isLost # 0 THEN "sendClose"
  ELSE "select"

\* handleWriteMessage with the Data message written to the socket at once,
\* then queued: a transmission that does not wait for the window.
handleWriteMessageUnwindowed(r, m) ==
  IF clientIsConnClosed(r) THEN r
  ELSE IF m.type = "Data"
    THEN sendMessageToClient(
           [r EXCEPT !.pendingSendMessages = Append(@, m.seq)], m)
    ELSE sendMessageToClient(r, NewAck(m.conn, m.seq))

\* case message := <-c.writeChan, the switch on message.Type: a Data message
\* is queued and the window advanced, an Ack is written to the socket;
\* nothing is done for a connection that is closed.
handleWriteMessage(r, m) ==
  IF clientIsConnClosed(r) THEN r
  ELSE IF m.type = "Data"
    THEN processPendingSendMessages(
           [r EXCEPT !.pendingSendMessages = Append(@, m.seq)])
    ELSE sendMessageToClient(r, NewAck(m.conn, m.seq))

\* case <-c.epochTimer.C, after atomic.AddInt32(&c.epochFiredCount, 1): the
\* count is loaded again; past the limit the connection is lost (and the
\* loop returns), else retransmit and re-send the ack.
handleEpoch(r) ==
  IF r.epochFiredCount > EpochLimit
    THEN [r EXCEPT !.isLost = 1]
    ELSE resendAckMessages(processPendingReSendMessages(r))

\* handleReceivedMessage with every Ack taken as the ack of the window's
\* front, whatever its sequence number.
handleReceivedMessageAnyAck(r, m) ==
  IF m.type = "Ack"
    THEN IF r.slideWindow # << >>
           THEN processAckMessage(r, Head(r.slideWindow))
           ELSE r
  ELSE IF m.type = "Data" THEN processReceivedMessage(r, m.seq)
  ELSE r

\* case msg := <-c.receivedMessageChan, the switch on msg.Type.
handleReceivedMessage(r, m) ==
  IF m.type = "Ack" THEN processAckMessage(r, m.seq)
  ELSE IF m.type = "Data" THEN processReceivedMessage(r, m.seq)
  ELSE r

\* prepareReadMessage without c.pendingReceivedMessageQueue.Remove(e): the
\* front of the queue is handed over again.
prepareReadMessageKeep(r) == r

\* prepareReadMessage, one turn of its loop: the front of the ready queue
\* goes into s.readChan and is removed. (The other case of its select
\* receives from c.toCloseChan, which the server never makes: a nil channel,
\* never ready.)
prepareReadMessage(r) ==
  [r EXCEPT !.pendingReceivedMessageQueue = Tail(@)]

EvWrite(c) ==
  /\ evPc[c] = "select"
  /\ client[c].writeChan # << >>
  /\ LET m == Head(client[c].writeChan)
         r == handleWriteMessage([client[c] EXCEPT !.writeChan = Tail(@)], m)
     IN /\ client' = [client EXCEPT ![c] = r]
        /\ evPc' = [evPc EXCEPT ![c] = EvNextPc(r)]
  /\ UNCHANGED << serverVars, readChan, hcVars, tickVars, readVars, writeVars,
                  closeConnVars, clPc, delivered, silent >>

\* case <-c.epochTimer.C and atomic.AddInt32(&c.epochFiredCount, 1). The
\* ticker is the server's, shared by every connection: the tick goes to the
\* one loop that receives it.
EvTick(c) ==
  /\ evPc[c] = "select"
  /\ tickChan = 1
  /\ tickChan' = 0
  /\ client' = [client EXCEPT ![c].epochFiredCount = @ + 1]
  /\ evPc' = [evPc EXCEPT ![c] = "epoch"]
  /\ UNCHANGED << serverVars, readChan, hcVars, tickerStopped, readVars,
                  writeVars, closeConnVars, clPc, delivered, silent >>

\* The epoch case with the loop carrying on into its select after it has
\* marked the connection lost, in place of the Stop and return of lines
\* 181-182.
EvEpochNoReturn(c) ==
  /\ evPc[c] = "epoch"
  /\ LET r == handleEpoch(client[c])
     IN /\ client' = [client EXCEPT ![c] = r]
        /\ evPc' = [evPc EXCEPT ![c] =
                      IF r.pendingReceivedMessageQueue # << >>
                        THEN "prepRead" ELSE "select"]
  /\ UNCHANGED << serverVars, readChan, hcVars, tickVars, readVars, writeVars,
                  closeConnVars, clPc, delivered, silent >>

\* The rest of the epoch case: atomic.LoadInt32(&c.epochFiredCount) (which
\* handleConn may have reset since the add) against the limit. Stop() stops
\* the shared ticker for every connection.
EvEpoch(c) ==
  /\ evPc[c] = "epoch"
  /\ LET r == handleEpoch(client[c])
     IN /\ client' = [client EXCEPT ![c] = r]
        /\ IF r.isLost # 0
             THEN /\ tickerStopped' = TRUE
                  /\ evPc' = [evPc EXCEPT ![c] = "exited"]
             ELSE /\ tickerStopped' = tickerStopped
                  /\ evPc' = [evPc EXCEPT ![c] = EvNextPc(r)]
  /\ UNCHANGED << serverVars, readChan, hcVars, tickChan, readVars, writeVars,
                  closeConnVars, clPc, delivered, silent >>

\* The rendezvous on the unbuffered c.receivedMessageChan with handleConn,
\* then checkCloseComplete.
EvReceive(c) ==
  /\ evPc[c] = "select"
  /\ hcPc = "sendRecv" /\ hcMsg.conn = c
  /\ LET r == handleReceivedMessage(client[c], hcMsg)
     IN /\ client' = [client EXCEPT ![c] = r]
        /\ evPc' = [evPc EXCEPT ![c] =
                      IF checkCloseComplete(r) THEN "sendClose" ELSE EvNextPc(r)]
  /\ hcPc' = "select"
  /\ hcMsg' = NoMsg
  /\ UNCHANGED << serverVars, readChan, dgrams, tickVars, readVars, writeVars,
                  closeConnVars, clPc, delivered, silent >>

\* case s.readChan <- message: blocks while the buffer is full.
EvPrepareRead(c) ==
  /\ evPc[c] = "prepRead"
  /\ Len(readChan) < ReadChanCap
  /\ readChan' = Append(readChan, << c, Head(client[c].pendingReceivedMessageQueue) >>)
  /\ LET r == prepareReadMessage(client[c])
     IN /\ client' = [client EXCEPT ![c] = r]
        /\ evPc' = [evPc EXCEPT ![c] = EvNextPc(r)]
  /\ UNCHANGED << serverVars, hcVars, tickVars, readVars, writeVars,
                  closeConnVars, clPc, delivered, silent >>

\* ---------------------------------------------------------------------- Read
ReadCall ==
  /\ rdPc = "idle"
  /\ rdPc' = "blocked"
  /\ UNCHANGED << serverVars, readChan, client, evPc, hcVars, tickVars,
                  writeVars, closeConnVars, clPc, delivered, silent >>

\* case message := <-s.readChan
ReadMessage ==
  /\ rdPc = "blocked"
  /\ readChan # << >>
  /\ readChan' = Tail(readChan)
  /\ delivered' = [delivered EXCEPT ![Head(readChan)[1]] = Append(@, Head(readChan)[2])]
  /\ rdPc' = "idle"
  /\ UNCHANGED << serverVars, client, evPc, hcVars, tickVars, writeVars,
                  closeConnVars, clPc, silent >>

\* case <-s.closeChan: Read takes the value Close is sending to handleConn.
ReadClosed ==
  /\ rdPc = "blocked"
  /\ clPc = "sendCloseChan"
  /\ clPc' = "waitComplete"
  /\ rdPc' = "idle"
  /\ UNCHANGED << serverVars, readChan, client, evPc, hcVars, tickVars,
                  writeVars, closeConnVars, delivered, silent >>

\* --------------------------------------------------------------------- Write
\* The checks of Write, then atomic.AddInt32(&c.seqNum, 1).
WriteCall(w, c, maxWrites) ==
  /\ wrPc[w] = "idle"
  /\ IF sIsClosed # 0 \/ c \notin clients \/ clientIsConnClosed(client[c])
       THEN UNCHANGED << wrPc, wrConn, client >>
       ELSE /\ client[c].seqNum < maxWrites
            /\ client' = [client EXCEPT ![c].seqNum = @ + 1]
            /\ wrPc' = [wrPc EXCEPT ![w] = "send"]
            /\ wrConn' = [wrConn EXCEPT ![w] = c]
  /\ UNCHANGED << serverVars, readChan, evPc, hcVars, tickVars, readVars,
                  closeConnVars, clPc, delivered, silent >>

\* NewData(connID, int(c.seqNum), ...); c.writeChan <- message; return nil.
WriteSend(w) ==
  /\ wrPc[w] = "send"
  /\ Len(client[wrConn[w]].writeChan) < WriteChanCap
  /\ client' = [client EXCEPT ![wrConn[w]].writeChan =
                   Append(@, NewData(wrConn[w], client[wrConn[w]].seqNum))]
  /\ wrPc' = [wrPc EXCEPT ![w] = "idle"]
  /\ UNCHANGED << serverVars, readChan, evPc, hcVars, tickVars, readVars,
                  wrConn, closeConnVars, clPc, delivered, silent >>

\* ----------------------------------------------------------------- CloseConn
\* The lookup; for a known ID, client.closeChan <- 1, an unbuffered channel
\* from which no goroutine of the server receives.
CloseConnCall(c) ==
  /\ ccPc = "idle"
  /\ IF c \in clients
       THEN ccPc' = "send" /\ ccConn' = c
       ELSE UNCHANGED << ccPc, ccConn >>
  /\ UNCHANGED << serverVars, readChan, client, evPc, hcVars, tickVars,
                  readVars, writeVars, clPc, delivered, silent >>

\* --------------------------------------------------------------------- Close
\* s.mutex.Lock() and the loop over s.clients: with no client the mutex is
\* released and Close goes on to s.closeChan <- 1; with one, Close blocks in
\* client.closeChan <- 1 holding the mutex.
CloseCall ==
  /\ clPc = "idle"
  /\ mutex = "free"
  /\ IF clients = {}
       THEN clPc' = "sendCloseChan" /\ mutex' = mutex
       ELSE clPc' = "notify" /\ mutex' = "Close"
  /\ UNCHANGED << clients, nextClientID, sIsClosed, readChan, client, evPc,
                  hcVars, tickVars, readVars, writeVars, closeConnVars,
                  delivered, silent >>

\* ----------------------------------------------------------- specification
DataDatagrams == {NewConnect} \cup {NewData(c, n) : c \in ClientIDs, n \in 1 .. RecvSeq}
AckDatagrams == {NewConnect} \cup {NewAck(c, n) : c \in ClientIDs, n \in SeqNums}

\* The receive path: Connect and Data datagrams in any order and any number
\* of copies, the acks they cause, and the application reading.
Next ==
  \/ HcEnterRead
  \/ \E m \in DataDatagrams : HcReadUDP(m, MaxClients, RecvDatagrams)
  \/ HcDispatchData
  \/ HcSendAck
  \/ HcDispatchConnect
  \/ \E c \in ClientIDs : EvWrite(c)
  \/ \E c \in ClientIDs : EvReceive(c)
  \/ \E c \in ClientIDs : EvPrepareRead(c)
  \/ ReadCall
  \/ ReadMessage

Spec == Init /\ [][Next]_vars

\* The send path: the application writing, acks arriving in any order and
\* any number of copies, and the epochs.
NextSend ==
  \/ Tick(FALSE)
  \/ HcEnterRead
  \/ \E m \in AckDatagrams : HcReadUDP(m, SendClients, MaxDatagrams)
  \/ HcDispatchAck
  \/ HcDispatchConnect
  \/ \E c \in ClientIDs : EvWrite(c)
  \/ \E c \in ClientIDs : EvTick(c)
  \/ \E c \in ClientIDs : EvEpoch(c)
  \/ \E c \in ClientIDs : EvReceive(c)
  \/ \E c \in ClientIDs : WriteCall(1, c, MaxSeq)
  \/ WriteSend(1)

SpecSend == Init /\ [][NextSend]_vars

\* The epochs: several connections, the ticker (with the epochs each peer
\* has been silent counted), datagrams of every kind, and writes.
NextEpoch ==
  \/ Tick(TRUE)
  \/ HcEnterRead
  \/ \E m \in Datagrams : HcReadUDP(m, EpochClients, EpochDatagrams)
  \/ HcDispatchAck
  \/ HcDispatchData
  \/ HcSendAck
  \/ HcDispatchConnect
  \/ \E c \in ClientIDs : EvWrite(c)
  \/ \E c \in ClientIDs : EvTick(c)
  \/ \E c \in ClientIDs : EvEpoch(c)
  \/ \E c \in ClientIDs : EvReceive(c)
  \/ \E c \in ClientIDs : EvPrepareRead(c)
  \/ \E c \in ClientIDs : WriteCall(1, c, EpochWrites)
  \/ WriteSend(1)

SpecEpoch == Init /\ [][NextEpoch]_vars

\* Shutdown: every thread of the server and every call of its API.
NextShutdown ==
  \/ Tick(FALSE)
  \/ HcRecvClose
  \/ HcComplete
  \/ HcEnterRead
  \/ \E m \in Datagrams : HcReadUDP(m, ShutdownClients, ShutdownDatagrams)
  \/ HcDispatchAck
  \/ HcDispatchData
  \/ HcSendAck
  \/ HcDispatchConnect
  \/ \E c \in ClientIDs : EvWrite(c)
  \/ \E c \in ClientIDs : EvTick(c)
  \/ \E c \in ClientIDs : EvEpoch(c)
  \/ \E c \in ClientIDs : EvReceive(c)
  \/ \E c \in ClientIDs : EvPrepareRead(c)
  \/ ReadCall
  \/ ReadMessage
  \/ ReadClosed
  \/ \E c \in ClientIDs : WriteCall(1, c, ShutdownWrites)
  \/ WriteSend(1)
  \/ \E c \in ClientIDs : CloseConnCall(c)
  \/ CloseCall

SpecShutdown == Init /\ [][NextShutdown]_vars

\* Concurrent writers: connections being opened while several application
\* threads call Write and one calls CloseConn.
NextWriters ==
  \/ HcEnterRead
  \/ HcReadUDP(NewConnect, WriterClients, 0)
  \/ HcConnectLock
  \/ HcConnectInsert
  \/ \E c \in ClientIDs : EvWrite(c)
  \/ \E w \in Writers : \E c \in ClientIDs : WriteCall(w, c, WriterWrites)
  \/ \E w \in Writers : WriteSend(w)
  \/ \E c \in ClientIDs : CloseConnCall(c)

SpecWriters == Init /\ [][NextWriters]_vars

\* Demultiplexing: datagrams of every kind, for connection IDs in the table
\* and not, handled by handleConn and handed to the connections' loops.
DemuxDatagramSet ==
  {m \in Datagrams : m.seq <= DemuxSeq}

NextDemux ==
  \/ HcEnterRead
  \/ \E m \in DemuxDatagramSet : HcReadUDP(m, DemuxClients, DemuxDatagrams)
  \/ HcDispatchAck
  \/ HcDispatchData
  \/ HcSendAck
  \/ HcDispatchConnect
  \/ \E c \in ClientIDs : EvWrite(c)
  \/ \E c \in ClientIDs : EvReceive(c)
  \/ \E c \in ClientIDs : EvPrepareRead(c)

SpecDemux == Init /\ [][NextDemux]_vars

\* The Go scheduler runs every goroutine that can take a step, the ticker
\* keeps ticking, and a select with several ready cases picks each of them
\* sooner or later.
Fairness ==
  /\ WF_vars(Tick(FALSE))
  /\ WF_vars(HcRecvClose)
  /\ WF_vars(HcComplete)
  /\ WF_vars(HcEnterRead)
  /\ WF_vars(HcDispatchAck)
  /\ WF_vars(HcDispatchData)
  /\ WF_vars(HcSendAck)
  /\ WF_vars(HcDispatchConnect)
  /\ \A c \in ClientIDs : SF_vars(EvWrite(c))
  /\ \A c \in ClientIDs : SF_vars(EvTick(c))
  /\ \A c \in ClientIDs : WF_vars(EvEpoch(c))
  /\ \A c \in ClientIDs : SF_vars(EvReceive(c))
  /\ \A c \in ClientIDs : WF_vars(EvPrepareRead(c))
  /\ SF_vars(ReadMessage)
  /\ SF_vars(ReadClosed)
  /\ WF_vars(WriteSend(1))

FairShutdown == SpecShutdown /\ Fairness

\* ------------------------------------------------------------------ claims
Range(q) == {q[i] : i \in 1 .. Len(q)}

\* C1: for every connection, whatever the order and the number of copies in
\* which the Data datagrams arrive, the sequence numbers Read returns for
\* it are 1, 2, 3, ... in this order: n only after n-1, each at most once.
C1_ReadInOrder ==
  \A c \in ClientIDs :
    \A i \in 1 .. Len(delivered[c]) : delivered[c][i] = i

\* C1's case: connection 0 got three Data datagrams for two sequence numbers
\* (one of them a duplicate) and Read has returned both payloads.
C1_Witness ==
  /\ client[0].receivedMessageSeqNum = 3
  /\ Len(delivered[0]) = 2

\* C2: in every reachable state the sliding window of every connection holds
\* at most windowSize entries, and a Data message is transmitted for the
\* first time in the step that admits it into the window.
C2_WindowBounded ==
  /\ [](\A c \in ClientIDs : Len(client[c].slideWindow) <= WindowSize)
  /\ [][\A c \in ClientIDs :
          \A n \in client[c].sentData' \ client[c].sentData :
            /\ n \in Range(client[c].slideWindow')
            /\ n \notin Range(client[c].slideWindow)]_vars

\* C2's case: the window is full, a written message waits behind it, and an
\* epoch has been processed.
C2_Witness ==
  /\ Len(client[0].slideWindow) = WindowSize
  /\ client[0].pendingSendMessages # << >>
  /\ client[0].epochFiredCount > 0

\* The send side of a connection: what C10 compares.
SendState(r) ==
  << r.slideWindow, r.unAckedMessages, r.pendingReSendMessages,
     r.pendingSendMessages, r.sentData >>

C3_SilentPeerIsLost ==
  \A c \in clients :
    (silent[c] > EpochLimit /\ tickChan = 0 /\ evPc[c] \in {"select", "exited"})
      => (client[c].isLost # 0 /\ evPc[c] = "exited")

\* C4: Write goes on to enqueue a Data message only if Close has not been
\* called, the ID is in the connection table and the connection is neither
\* closing nor lost; in every other case it returns the error.
C4_WriteRefusedWhenClosed ==
  [][\A c \in ClientIDs :
       (wrPc[1] = "idle" /\ wrPc'[1] = "send" /\ wrConn'[1] = c)
         => (clPc = "idle" /\ c \in clients /\ ~clientIsConnClosed(client[c]))]_vars

\* C5: a CloseConn call that has found its connection in the table (here an
\* active one, with no Close in progress) signals it and returns: it does
\* not block forever.
C5_CloseConnReturns ==
  (ccPc = "send" /\ clPc = "idle" /\ client[ccConn].isLost = 0) ~> (ccPc = "idle")

\* C6: Close, once called, returns.
C6_CloseReturns == (clPc # "idle") ~> (clPc = "done")

\* C7: once the server is shut down (Close has returned), a blocked Read
\* returns.
C7_ReadReturnsAfterShutdown == (clPc = "done" /\ rdPc = "blocked") ~> (rdPc = "idle")

\* C8: while a connection A is Lost and another connection B is not, the
\* ticker still runs for B and the demultiplexing loop is not blocked on
\* handing A a datagram that A's stopped loop will never take.
C8_LostIsContained ==
  \A a, b \in clients :
    (a # b /\ client[a].isLost # 0 /\ client[b].isLost = 0)
      => (~tickerStopped /\ ~(hcPc = "sendRecv" /\ hcMsg.conn = a))

\* C9: a close request on an active connection with an unacknowledged Data
\* message puts the connection into Closing.
C9_CloseRequestLeadsToClosing ==
  (/\ ccPc = "send" /\ clPc = "idle"
   /\ client[ccConn].isLost = 0
   /\ client[ccConn].unAckedMessages # {})
    ~> (client[ccConn].isClosed # 0)

\* The step in which handleConn finishes with a Connect datagram.
ConnectHandled ==
  hcPc = "dispatch" /\ hcMsg.type = "Connect" /\ hcPc' = "select"

\* C11: a Connect datagram handled while Close has not been called registers
\* an Active connection under an ID greater than every ID in use, advances
\* the counter past it, starts the connection's loop and queues Ack(id, 0)
\* for the peer; one handled after Close has been called changes neither
\* the table nor the counter.
C11_ConnectAllocates ==
  [][ConnectHandled =>
       IF clPc = "idle"
         THEN /\ \A d \in clients : d < nextClientID
              /\ clients' = clients \cup {nextClientID}
              /\ nextClientID' = nextClientID + 1
              /\ ~clientIsConnClosed(client'[nextClientID])
              /\ evPc'[nextClientID] = "select"
              /\ NewAck(nextClientID, 0) \in Range(client'[nextClientID].writeChan)
         ELSE clients' = clients /\ nextClientID' = nextClientID]_vars

\* The step in which handleConn finishes the lookup for a Data or Ack
\* datagram whose connection ID is not in the table.
UnknownHandled ==
  /\ hcPc = "dispatch" /\ hcMsg.type \in {"Data", "Ack"}
  /\ hcMsg.conn \notin clients
  /\ hcPc' # "dispatch"

\* C12: a Data or Ack datagram for a connection ID that is not in the table
\* is dropped: the table, the ID counter, every connection's state (its
\* queues and what it has sent), its loop, and the ready-to-read queue are
\* unchanged, and handleConn goes back to its select.
C12_UnknownDropped ==
  [][UnknownHandled =>
       /\ clients' = clients /\ nextClientID' = nextClientID
       /\ client' = client /\ evPc' = evPc
       /\ readChan' = readChan /\ delivered' = delivered
       /\ hcPc' = "select" /\ hcMsg' = NoMsg]_vars

\* C12's case: a Data or Ack datagram has been read and handled while the
\* table was empty, and handleConn is back at its select.
C12_Witness ==
  /\ dgrams > 0 /\ clients = {} /\ nextClientID = 0
  /\ hcPc = "select" /\ hcMsg = NoMsg

\* The sequence numbers of connection c on their way to the application, in
\* order: returned by Read, waiting in s.readChan, waiting in the ready queue.
QueuedFor(c) ==
  LET inChan == SelectSeq(readChan, LAMBDA e : e[1] = c)
  IN delivered[c] \o [i \in 1 .. Len(inChan) |-> inChan[i][2]]
                  \o client[c].pendingReceivedMessageQueue

\* C13: every Data datagram that handleConn has looked up in the table and
\* found its connection for, a duplicate included, leads to an Ack with its
\* connection ID and sequence number being written to the socket; and no
\* sequence number is queued for the application twice.
C13_DataIsAcked ==
  /\ \A c \in ClientIDs : \A n \in SeqNums :
       (hcPc = "sendAck" /\ hcMsg = NewData(c, n)) ~> (n \in client[c].sentAcks)
  /\ [](\A c \in ClientIDs :
          \A i, j \in 1 .. Len(QueuedFor(c)) :
            i # j => QueuedFor(c)[i] # QueuedFor(c)[j])

\* The step in which handleConn finishes the lookup for a Data or Ack
\* datagram of a connection that is in the table.
KnownHandled ==
  /\ hcPc = "dispatch" /\ hcMsg.type \in {"Data", "Ack"}
  /\ hcMsg.conn \in clients
  /\ hcPc' # "dispatch"

\* C14: a datagram received from the peer of a registered connection, an Ack
\* as well as a Data message, leaves the connection's count of silent epochs
\* (epochFiredCount) at 0.
C14_AnyMessageResetsEpochs ==
  [][KnownHandled => client'[hcMsg.conn].epochFiredCount = 0]_vars

\* C15: no thread holds the mutex of the connection table while it is
\* blocked on a channel: whenever Close is waiting in a channel send or
\* receive, and whenever handleConn is, the mutex is free.
C15_MutexNotHeldWhileBlocked ==
  (\/ clPc \in {"notify", "sendCloseChan", "waitComplete"}
   \/ hcPc \in {"sendAck", "sendRecv", "sendComplete", "udp"}
   \/ \E w \in Writers : wrPc[w] = "send"
   \/ ccPc = "send")
    => mutex = "free"

\* C16: every access to the connection table is made with the mutex held by
\* the accessing thread: the lookup of a Write or a CloseConn call is never
\* made while another thread holds the mutex, in particular not while
\* handleConn is inside the critical section that inserts a connection.
C16_TableAccessUnderMutex ==
  [][(\/ \E w \in Writers : wrPc[w] = "idle" /\ wrPc'[w] = "send"
      \/ ccPc = "idle" /\ ccPc' = "send")
       => (mutex = "free" /\ hcPc # "insert")]_vars

\* The payloads of connection c waiting in s.readChan.
InReadChan(c) == SelectSeq(readChan, LAMBDA e : e[1] = c)

\* C17: Lost is absorbing. From a state in which a connection's lost flag
\* is set, no step (a tick, a datagram from the peer, a Write, or any other)
\* clears the flag, makes the connection transmit a Data message for the
\* first time or again, or makes it put a payload into the ready queue or
\* into s.readChan for the application.
C17_LostIsAbsorbing ==
  [][\A c \in ClientIDs :
       client[c].isLost # 0 =>
         /\ client'[c].isLost # 0
         /\ client'[c].sentData = client[c].sentData
         /\ client'[c].resent = client[c].resent
         /\ client'[c].pendingReceivedMessageQueue =
              client[c].pendingReceivedMessageQueue
         /\ Len(InReadChan(c)') <= Len(InReadChan(c))]_vars

\* C17's case: connection 0 has transmitted a Data message that is still
\* unacknowledged and has then been lost; a further tick is waiting in the
\* ticker's channel and a Data datagram of its peer has been looked up and is
\* being handed to it.
C17_Witness ==
  /\ client[0].isLost # 0
  /\ client[0].pendingReSendMessages # {}
  /\ tickChan = 1
  /\ hcPc = "sendRecv" /\ hcMsg.type = "Data" /\ hcMsg.conn = 0

\* C18: a connection that has become Lost is eventually taken out of the
\* connection table (so that Write and CloseConn on its ID are refused and
\* its datagrams dropped), and its loop has terminated.
C18_LostIsRemoved ==
  \A c \in ClientIDs :
    (client[c].isLost # 0) ~> (c \notin clients /\ evPc[c] = "exited")

\* The Data messages of connection c in the order in which Write calls have
\* enqueued them: those the loop has admitted to the window, those it has
\* appended to pendingSendMessages, those still in writeChan. (No Ack
\* arrives under SpecWriters, so nothing leaves the window.)
Enqueued(c) ==
  LET inChan == SelectSeq(client[c].writeChan, LAMBDA m : m.type = "Data")
  IN client[c].slideWindow \o client[c].pendingSendMessages
       \o [i \in 1 .. Len(inChan) |-> inChan[i].seq]

\* C19: whatever the interleaving of the Write calls on a connection, the
\* Data messages enqueued carry the sequence numbers 1, 2, 3, ..., each
\* once and none skipped, in this order.
C19_WriteSeqNumsDistinct ==
  \A c \in ClientIDs :
    \A i \in 1 .. Len(Enqueued(c)) : Enqueued(c)[i] = i

\* C20: a tick is for every connection. In the step in which one
\* connection's loop takes a tick out of the ticker's channel, every other
\* connection whose loop is waiting in its select takes it too or still
\* finds it in the channel.
C20_TickFannedOut ==
  [][\A c \in clients :
       (evPc[c] = "select" /\ evPc'[c] = "epoch") =>
         \A d \in clients :
           evPc[d] = "select" => (evPc'[d] = "epoch" \/ tickChan' = 1)]_vars

====
